---- MODULE Spec2Model ----
(***************************************************************************)
(* Lifecycle model of luagcrypt.c: the gcrypt.Cipher and gcrypt.Hash       *)
(* userdata, their method tables, the module function init, the script     *)
(* that calls them and the Lua collector that finalizes them.              *)
(*                                                                         *)
(* Every C handler is one action.  luaL_error is a non-local exit: the     *)
(* handler ends at the raise, and the action records the exit in last.     *)
(* libgcrypt and the Lua heap are modelled by what the handlers can        *)
(* observe of them: status codes, pointers, contexts that are open or      *)
(* closed, buffers that are live or free.  Byte strings are modelled by    *)
(* their length.  A call on a closed context or a free of a buffer that    *)
(* is not live is undefined behaviour: its status is any status, and the   *)
(* process may end (crashed).                                              *)
(***************************************************************************)
EXTENDS Integers, Sequences, FiniteSets, TLC

\* ---------------------------------------------------------------- bounds
\* Userdata objects the script creates.  An object is named by its number,
\* and so are the native context opened for it and the buffer its out field
\* points to.
MaxObj == 1

Objects == 1..MaxObj

\* ------------------------------------------------------------- constants
NULL == 0

\* Lua values a script can pass where a string is expected: a string, given
\* by its length, or (a negative number) a value luaL_checklstring rejects.
DataArgs == {-1, 8, 16}
KeyArgs == {-1, 16, 32}
luaL_checklstring(v) == v >= 0

\* Integer arguments; "notint" is a value luaL_checkint rejects.
CipherAlgoArgs == {"AES256", "UNKNOWN", "notint"}
CipherModeArgs == {"CBC", "UNKNOWN"}
HashAlgoArgs == {"SHA256", "SHAKE128", "UNKNOWN", "notint"}
HashFlagArgs == {"none", "HMAC"}
ReadAlgoArgs == {"default", "SHA256", "SHAKE128", "notint"}
luaL_checkint(v) == v # "notint"

VARIABLES
    ref,           \* ref[o]: "none" (not allocated), "held" (the script has
                   \* it), "garbage" (unreachable, not yet finalized),
                   \* "collected" (finalized by the collector and freed)
    meta,          \* meta[o]: the name of the metatable of userdata o
    cipher,        \* cipher[o]: the LgcryptCipher struct, fields h and out
    hash,          \* hash[o]: the LgcryptHash struct, field h
    cctx,          \* cctx[h]: provider side of the cipher context h: st, key
                   \* (a key is set), closes, iv ("zero": cleared, "set": the
                   \* IV of setiv, "chained": advanced by the blocks
                   \* processed since)
    mctx,          \* mctx[h]: provider side of the digest context h
    heap,          \* heap[o]: the gcry_malloc buffer whose address is in
                   \* cipher[o].out: "live" or "free" ("free" when out is
                   \* NULL)
    leaked,        \* some live buffer has no pointer left that refers to it
    initFinished,  \* GCRYCTL_INITIALIZATION_FINISHED_P
    initSteps,     \* how often init performed its setup steps (capped)
    finalized,     \* finalized[o]: how often a finalizer has run on o (capped)
    crashed,       \* undefined behaviour ended the process
    last           \* the most recent handler run

vars == <<ref, meta, cipher, hash, cctx, mctx, heap, leaked, initFinished,
          initSteps, finalized, crashed, last>>

Bump(n) == IF n < 2 THEN n + 1 ELSE n

\* The record of a handler run: the handler, who called it, its self
\* argument, how it ended, the provider and allocator functions it called,
\* in order, the state of the native context when they were called on it
\* (on), the state of the buffer when gcry_free was called on it (mem), the
\* buffer the run allocated, the lengths of its input and its result, (arg)
\* the algorithm argument of read, and of encrypt and decrypt: (size) the
\* size passed to gcry_malloc, (iv) the IV state of the context at the
\* native call.
Ran(op, caller, self, exit, calls, on, mem, buf, inlen, outlen) ==
    [op |-> op, caller |-> caller, self |-> self, exit |-> exit,
     calls |-> calls, on |-> on, mem |-> mem, buf |-> buf,
     inlen |-> inlen, outlen |-> outlen, arg |-> "-",
     size |-> 0, iv |-> "-"]

Read(arg, self, exit, calls, on, outlen) ==
    [Ran("read", "script", self, exit, calls, on, "-", NULL, 0, outlen)
     EXCEPT !.arg = arg]

\* A run that raised at an argument check, before any call.
ArgError(op, caller, self) ==
    Ran(op, caller, self, "arg_error", <<>>, "-", "-", NULL, 0, 0)

\* Outcomes of undefined behaviour: the process may or may not end.
Crashes(ub) == IF ub THEN BOOLEAN ELSE {FALSE}

\* ------------------------------------------------------------- provider
\* gcry_cipher_open: accepts the algorithm/mode pairs the library knows; on
\* an error the handle field is as the caller initialised it.
gcry_cipher_open(algo, mode) == algo = "AES256" /\ mode = "CBC"

\* gcry_cipher_setkey: the key length must fit the algorithm.
gcry_cipher_setkey(h, keylen) ==
    IF cctx[h].st = "open" THEN {keylen = 32} ELSE BOOLEAN

\* gcry_cipher_setiv: the IV length must be the block length.
gcry_cipher_setiv(h, ivlen) ==
    IF cctx[h].st = "open" THEN {ivlen = 16} ELSE BOOLEAN

gcry_cipher_reset(h) ==
    IF cctx[h].st = "open" THEN {TRUE} ELSE BOOLEAN

\* gcry_cipher_encrypt / gcry_cipher_decrypt: need a key and a whole number
\* of blocks.
gcry_cipher_crypt(h, inlen) ==
    IF cctx[h].st = "open" THEN {cctx[h].key /\ inlen % 16 = 0} ELSE BOOLEAN

\* The context after a native call that processed blocks: CBC chains the
\* IV, so the next call starts from the last ciphertext block.
Chained(ctx) == [ctx EXCEPT !.iv = "chained"]

\* gcry_malloc, called to fill the out field of object o: NULL, or a fresh
\* buffer.
gcry_malloc(o) == {NULL, o}

\* The closed context: the provider has destroyed its state.
Closed(ctx) == [ctx EXCEPT !.st = "closed", !.key = FALSE, !.closes = Bump(@)]

\* lua_pushlstring: pushes the string (TRUE) or raises a memory error.
lua_pushlstring == BOOLEAN

\* lua_newuserdata: o is an object that was never allocated.
lua_newuserdata(o) == o # NULL /\ ref[o] = "none"

\* luaL_checkudata: self is a userdata whose metatable is the named one.
luaL_checkudata(self, name) == self # NULL /\ meta[self] = name

\* --------------------------------------------------------------- cipher
checkCipher(self) == luaL_checkudata(self, "gcrypt.Cipher")

\* A variant of lgcrypt_cipher_new that leaves h as allocated, not NULL.
lgcrypt_cipher_new_uninitialized == [h |-> 1, out |-> NULL]

\* lgcrypt_cipher_new: a fresh userdata with both fields NULL.
lgcrypt_cipher_new == [h |-> NULL, out |-> NULL]

lgcrypt_cipher_open(o, algo, mode) ==
    /\ IF ~luaL_checkint(algo) \/ ~luaL_checkint(mode)
       THEN /\ last' = ArgError("Cipher", "script", NULL)
            /\ UNCHANGED <<ref, meta, cipher, cctx>>
       ELSE /\ lua_newuserdata(o)
            /\ meta' = [meta EXCEPT ![o] = "gcrypt.Cipher"]
            /\ IF gcry_cipher_open(algo, mode)
               THEN /\ cipher' = [cipher EXCEPT ![o] = [lgcrypt_cipher_new EXCEPT !.h = o]]
                    /\ cctx' = [cctx EXCEPT ![o].st = "open"]
                    /\ ref' = [ref EXCEPT ![o] = "held"]
                    /\ last' = Ran("Cipher", "script", o, "return",
                                   <<"gcry_cipher_open">>, "none", "-", NULL, 0, 0)
               ELSE /\ cipher' = [cipher EXCEPT ![o] = lgcrypt_cipher_new]
                    /\ ref' = [ref EXCEPT ![o] = "garbage"]
                    /\ last' = Ran("Cipher", "script", o, "provider_error",
                                   <<"gcry_cipher_open">>, "none", "-", NULL, 0, 0)
                    /\ UNCHANGED cctx
    /\ UNCHANGED <<heap, leaked, finalized, crashed>>

lgcrypt_cipher___gc(self, caller) ==
    IF ~checkCipher(self)
    THEN /\ last' = ArgError("__gc", caller, self)
         /\ UNCHANGED <<cipher, cctx, heap, leaked, finalized, crashed>>
    ELSE LET state == cipher[self]
             on == IF state.h # NULL THEN cctx[state.h].st ELSE "-"
             mem == IF state.out # NULL THEN heap[state.out] ELSE "-"
         IN /\ cctx' = IF state.h # NULL
                       THEN [cctx EXCEPT ![state.h] =
                                  [Closed(@) EXCEPT !.iv = "zero"]]
                       ELSE cctx
            /\ heap' = IF state.out # NULL
                       THEN [heap EXCEPT ![state.out] = "free"]
                       ELSE heap
            /\ finalized' = [finalized EXCEPT ![self] = Bump(@)]
            /\ crashed' \in Crashes(on \notin {"open", "-"} \/ mem = "free")
            /\ last' = Ran("__gc", caller, self, "return",
                           (IF state.h # NULL THEN <<"gcry_cipher_close">> ELSE <<>>)
                           \o (IF state.out # NULL THEN <<"gcry_free">> ELSE <<>>),
                           on, mem, NULL, 0, 0)
            /\ UNCHANGED <<cipher, leaked>>

\* A variant of lgcrypt_cipher_setkey that closes the context when the
\* provider rejects the key.
lgcrypt_cipher_setkey_closes(self, key) ==
    /\ IF ~checkCipher(self) \/ ~luaL_checklstring(key)
       THEN /\ last' = ArgError("setkey", "script", self)
            /\ UNCHANGED <<cctx, crashed>>
       ELSE LET h == cipher[self].h
                on == cctx[h].st
            IN \E ok \in gcry_cipher_setkey(h, key) :
                /\ cctx' = IF ok /\ on = "open" THEN [cctx EXCEPT ![h].key = TRUE]
                           ELSE [cctx EXCEPT ![h] =
                                      [Closed(@) EXCEPT !.iv = "zero"]]
                /\ crashed' \in Crashes(on # "open")
                /\ last' = Ran("setkey", "script", self,
                               IF ok THEN "return" ELSE "provider_error",
                               <<"gcry_cipher_setkey">>, on, "-", NULL, 0, 0)
    /\ UNCHANGED <<cipher, heap, leaked, finalized>>

lgcrypt_cipher_setkey(self, key) ==
    /\ IF ~checkCipher(self) \/ ~luaL_checklstring(key)
       THEN /\ last' = ArgError("setkey", "script", self)
            /\ UNCHANGED <<cctx, crashed>>
       ELSE LET h == cipher[self].h
                on == cctx[h].st
            IN \E ok \in gcry_cipher_setkey(h, key) :
                /\ cctx' = IF ok /\ on = "open" THEN [cctx EXCEPT ![h].key = TRUE]
                           ELSE cctx
                /\ crashed' \in Crashes(on # "open")
                /\ last' = Ran("setkey", "script", self,
                               IF ok THEN "return" ELSE "provider_error",
                               <<"gcry_cipher_setkey">>, on, "-", NULL, 0, 0)
    /\ UNCHANGED <<cipher, heap, leaked, finalized>>

lgcrypt_cipher_setiv(self, iv) ==
    /\ IF ~checkCipher(self) \/ ~luaL_checklstring(iv)
       THEN /\ last' = ArgError("setiv", "script", self)
            /\ UNCHANGED <<cctx, crashed>>
       ELSE LET h == cipher[self].h
                on == cctx[h].st
            IN \E ok \in gcry_cipher_setiv(h, iv) :
                /\ cctx' = IF ok /\ on = "open" THEN [cctx EXCEPT ![h].iv = "set"]
                           ELSE cctx
                /\ crashed' \in Crashes(on # "open")
                /\ last' = Ran("setiv", "script", self,
                               IF ok THEN "return" ELSE "provider_error",
                               <<"gcry_cipher_setiv">>, on, "-", NULL, 0, 0)
    /\ UNCHANGED <<cipher, heap, leaked, finalized>>

\* A variant of lgcrypt_cipher_reset that returns without the provider call.
lgcrypt_cipher_reset_skipped(self) ==
    /\ last' = IF ~checkCipher(self)
               THEN ArgError("reset", "script", self)
               ELSE Ran("reset", "script", self, "return", <<>>,
                        cctx[cipher[self].h].st, "-", NULL, 0, 0)
    /\ UNCHANGED <<cipher, cctx, heap, leaked, finalized, crashed>>

lgcrypt_cipher_reset(self) ==
    /\ IF ~checkCipher(self)
       THEN /\ last' = ArgError("reset", "script", self)
            /\ UNCHANGED <<cctx, crashed>>
       ELSE LET h == cipher[self].h
                on == cctx[h].st
            IN \E ok \in gcry_cipher_reset(h) :
                /\ cctx' = IF ok /\ on = "open" THEN [cctx EXCEPT ![h].iv = "zero"]
                           ELSE cctx
                /\ crashed' \in Crashes(on # "open")
                /\ last' = Ran("reset", "script", self,
                               IF ok THEN "return" ELSE "provider_error",
                               <<"gcry_cipher_reset">>, on, "-", NULL, 0, 0)
    /\ UNCHANGED <<cipher, heap, leaked, finalized>>

\* A variant of crypt_failed that raises before it releases the buffer.
crypt_failed_raises_first(op, fn, self, in, out, on) ==
    /\ cipher' = [cipher EXCEPT ![self].out = out]
    /\ heap' = [heap EXCEPT ![out] = "live"]
    /\ last' = [Ran(op, "script", self, "provider_error",
                    <<"gcry_malloc", fn>>, on, "-", out, in, 0)
                EXCEPT !.size = in, !.iv = cctx[cipher[self].h].iv]

\* The provider reported an error: free the buffer, clear out, raise.
crypt_failed(op, fn, self, in, out, on) ==
    /\ cipher' = [cipher EXCEPT ![self].out = NULL]
    /\ heap' = [heap EXCEPT ![out] = "free"]
    /\ last' = [Ran(op, "script", self, "provider_error",
                    <<"gcry_malloc", fn, "gcry_free">>, on, "live", out, in, 0)
                EXCEPT !.size = in, !.iv = cctx[cipher[self].h].iv]

\* A variant of cipher_crypt that does not check the result of gcry_malloc.
cipher_crypt_unchecked_malloc(op, fn, self, in) ==
    IF ~checkCipher(self) \/ ~luaL_checklstring(in)
    THEN /\ last' = ArgError(op, "script", self)
         /\ UNCHANGED <<cipher, cctx, heap, leaked, finalized, crashed>>
    ELSE LET h == cipher[self].h
             on == cctx[h].st
             lost == cipher[self].out # NULL /\ heap[cipher[self].out] = "live"
         IN /\ leaked' = (leaked \/ lost)
            /\ UNCHANGED <<finalized, heap>>
            /\ \E out \in gcry_malloc(self) :
               /\ crashed' \in Crashes(on # "open" \/ out = NULL)
               /\ cipher' = [cipher EXCEPT ![self].out = NULL]
               /\ \E ok \in gcry_cipher_crypt(h, in) :
                  /\ cctx' = IF ok /\ on = "open"
                             THEN [cctx EXCEPT ![h] = Chained(@)]
                             ELSE cctx
                  /\ last' = [Ran(op, "script", self,
                                  IF ok THEN "return" ELSE "provider_error",
                                  <<"gcry_malloc", fn, "gcry_free">>,
                                  on, "live", out, in, IF ok THEN in ELSE 0)
                              EXCEPT !.size = in, !.iv = cctx[h].iv]

\* The body shared by lgcrypt_cipher_encrypt and lgcrypt_cipher_decrypt,
\* which differ in the provider function and the message only.  The
\* assignment to state->out drops the pointer it held: a buffer that was
\* still live is leaked.
cipher_crypt(op, fn, self, in) ==
    IF ~checkCipher(self) \/ ~luaL_checklstring(in)
    THEN /\ last' = ArgError(op, "script", self)
         /\ UNCHANGED <<cipher, cctx, heap, leaked, finalized, crashed>>
    ELSE LET h == cipher[self].h
             on == cctx[h].st
             out_len == in
             lost == cipher[self].out # NULL /\ heap[cipher[self].out] = "live"
             Run(exit, calls, mem, buf, outlen) ==
                 [Ran(op, "script", self, exit, calls, on, mem, buf, in, outlen)
                  EXCEPT !.size = out_len, !.iv = cctx[h].iv]
         IN /\ leaked' = (leaked \/ lost)
            /\ UNCHANGED finalized
            /\ \E out \in gcry_malloc(self) :
               IF out = NULL
               THEN /\ cipher' = [cipher EXCEPT ![self].out = NULL]
                    /\ heap' = [heap EXCEPT ![self] = "free"]
                    /\ last' = [Run("alloc_error", <<"gcry_malloc">>, "-", NULL, 0)
                                EXCEPT !.on = "-", !.iv = "-"]
                    /\ UNCHANGED <<cctx, crashed>>
               ELSE /\ crashed' \in Crashes(on # "open")
                    /\ \E ok \in gcry_cipher_crypt(h, in) :
                       IF ~ok
                       THEN crypt_failed(op, fn, self, in, out, on) /\ UNCHANGED cctx
                       ELSE /\ cctx' = IF on = "open"
                                       THEN [cctx EXCEPT ![h] = Chained(@)]
                                       ELSE cctx
                            /\ \E pushed \in lua_pushlstring :
                               IF ~pushed
                               THEN /\ cipher' = [cipher EXCEPT ![self].out = out]
                                    /\ heap' = [heap EXCEPT ![out] = "live"]
                                    /\ last' = Run("host_error", <<"gcry_malloc", fn>>,
                                                   "-", out, 0)
                               ELSE /\ cipher' = [cipher EXCEPT ![self].out = NULL]
                                    /\ heap' = [heap EXCEPT ![out] = "free"]
                                    /\ last' = Run("return",
                                                   <<"gcry_malloc", fn, "gcry_free">>,
                                                   "live", out, out_len)

lgcrypt_cipher_encrypt(self, in) ==
    cipher_crypt("encrypt", "gcry_cipher_encrypt", self, in)

\* A variant of lgcrypt_cipher_decrypt that calls the provider's encryption.
lgcrypt_cipher_decrypt_encrypts(self, in) ==
    cipher_crypt("decrypt", "gcry_cipher_encrypt", self, in)

lgcrypt_cipher_decrypt(self, in) ==
    cipher_crypt("decrypt", "gcry_cipher_decrypt", self, in)

\* The names of the Cipher metatable.
lgcrypt_cipher_meta == {"__gc", "setkey", "setiv", "reset", "encrypt", "decrypt"}

\* ----------------------------------------------------------------- hash
\* gcry_md_open: an expandable-output algorithm cannot be part of an HMAC.
gcry_md_open(algo, flags) ==
    algo \in {"SHA256", "SHAKE128"} /\ ~(algo = "SHAKE128" /\ flags = "HMAC")

\* gcry_md_setkey: a conflict unless the context was opened for HMAC.
gcry_md_setkey(h, keylen) ==
    IF mctx[h].st = "open" THEN {mctx[h].hmac} ELSE BOOLEAN

gcry_md_get_algo(h) ==
    IF mctx[h].st = "open" THEN {mctx[h].algo} ELSE {"SHA256", "SHAKE128"}

gcry_md_is_enabled(h, algo) ==
    IF mctx[h].st = "open" THEN {mctx[h].algo = algo} ELSE BOOLEAN

gcry_md_get_algo_dlen(algo) == IF algo = "SHA256" THEN 32 ELSE 0

\* gcry_md_read: a borrowed buffer (TRUE) or NULL (FALSE).
gcry_md_read(h, algo) == BOOLEAN

checkHash(self) == luaL_checkudata(self, "gcrypt.Hash")

lgcrypt_hash_new == [h |-> NULL]

lgcrypt_hash_open(o, algo, flags) ==
    /\ IF ~luaL_checkint(algo)
       THEN /\ last' = ArgError("Hash", "script", NULL)
            /\ UNCHANGED <<ref, meta, hash, mctx>>
       ELSE /\ lua_newuserdata(o)
            /\ meta' = [meta EXCEPT ![o] = "gcrypt.Hash"]
            /\ IF gcry_md_open(algo, flags)
               THEN /\ hash' = [hash EXCEPT ![o] = [lgcrypt_hash_new EXCEPT !.h = o]]
                    /\ mctx' = [mctx EXCEPT ![o].st = "open", ![o].algo = algo,
                                            ![o].hmac = (flags = "HMAC")]
                    /\ ref' = [ref EXCEPT ![o] = "held"]
                    /\ last' = Ran("Hash", "script", o, "return",
                                   <<"gcry_md_open">>, "none", "-", NULL, 0, 0)
               ELSE /\ hash' = [hash EXCEPT ![o] = lgcrypt_hash_new]
                    /\ ref' = [ref EXCEPT ![o] = "garbage"]
                    /\ last' = Ran("Hash", "script", o, "provider_error",
                                   <<"gcry_md_open">>, "none", "-", NULL, 0, 0)
                    /\ UNCHANGED mctx
    /\ UNCHANGED <<finalized, crashed>>

\* A variant of lgcrypt_hash___gc that also passes a digest buffer it kept to
\* gcry_free.
lgcrypt_hash___gc_frees_digest(self, caller) ==
    IF ~checkHash(self)
    THEN /\ last' = ArgError("__gc", caller, self)
         /\ UNCHANGED <<hash, mctx, finalized, crashed>>
    ELSE LET state == hash[self]
             on == IF state.h # NULL THEN mctx[state.h].st ELSE "-"
         IN /\ mctx' = IF state.h # NULL
                       THEN [mctx EXCEPT ![state.h] =
                                  [Closed(@) EXCEPT !.algo = "none", !.hmac = FALSE]]
                       ELSE mctx
            /\ finalized' = [finalized EXCEPT ![self] = Bump(@)]
            /\ crashed' \in BOOLEAN
            /\ last' = Ran("__gc", caller, self, "return",
                           (IF state.h # NULL THEN <<"gcry_md_close">> ELSE <<>>)
                           \o <<"gcry_free">>,
                           on, "-", NULL, 0, 0)
            /\ UNCHANGED hash

lgcrypt_hash___gc(self, caller) ==
    IF ~checkHash(self)
    THEN /\ last' = ArgError("__gc", caller, self)
         /\ UNCHANGED <<hash, mctx, finalized, crashed>>
    ELSE LET state == hash[self]
             on == IF state.h # NULL THEN mctx[state.h].st ELSE "-"
         IN /\ mctx' = IF state.h # NULL
                       THEN [mctx EXCEPT ![state.h] =
                                  [Closed(@) EXCEPT !.algo = "none", !.hmac = FALSE]]
                       ELSE mctx
            /\ finalized' = [finalized EXCEPT ![self] = Bump(@)]
            /\ crashed' \in Crashes(on \notin {"open", "-"})
            /\ last' = Ran("__gc", caller, self, "return",
                           IF state.h # NULL THEN <<"gcry_md_close">> ELSE <<>>,
                           on, "-", NULL, 0, 0)
            /\ UNCHANGED hash

lgcrypt_hash_setkey(self, key) ==
    /\ IF ~checkHash(self) \/ ~luaL_checklstring(key)
       THEN /\ last' = ArgError("setkey", "script", self)
            /\ UNCHANGED <<mctx, crashed>>
       ELSE LET h == hash[self].h
                on == mctx[h].st
            IN \E ok \in gcry_md_setkey(h, key) :
                /\ mctx' = IF ok /\ on = "open" THEN [mctx EXCEPT ![h].key = TRUE]
                           ELSE mctx
                /\ crashed' \in Crashes(on # "open")
                /\ last' = Ran("setkey", "script", self,
                               IF ok THEN "return" ELSE "provider_error",
                               <<"gcry_md_setkey">>, on, "-", NULL, 0, 0)
    /\ UNCHANGED <<hash, finalized>>

lgcrypt_hash_reset(self) ==
    /\ IF ~checkHash(self)
       THEN /\ last' = ArgError("reset", "script", self)
            /\ UNCHANGED crashed
       ELSE LET h == hash[self].h
                on == mctx[h].st
            IN /\ crashed' \in Crashes(on # "open")
               /\ last' = Ran("reset", "script", self, "return",
                              <<"gcry_md_reset">>, on, "-", NULL, 0, 0)
    /\ UNCHANGED <<hash, mctx, finalized>>

\* A variant of lgcrypt_hash_write that passes the buffer to the provider
\* before it checks that the argument is a string.
lgcrypt_hash_write_unchecked(self, buffer) ==
    /\ IF ~checkHash(self)
       THEN /\ last' = ArgError("write", "script", self)
            /\ UNCHANGED crashed
       ELSE LET h == hash[self].h
                on == mctx[h].st
            IN /\ crashed' \in Crashes(on # "open")
               /\ last' = Ran("write", "script", self,
                              IF luaL_checklstring(buffer) THEN "return"
                              ELSE "arg_error",
                              <<"gcry_md_write">>, on, "-", NULL, 0, 0)
    /\ UNCHANGED <<hash, mctx, finalized>>

lgcrypt_hash_write(self, buffer) ==
    /\ IF ~checkHash(self) \/ ~luaL_checklstring(buffer)
       THEN /\ last' = ArgError("write", "script", self)
            /\ UNCHANGED crashed
       ELSE LET h == hash[self].h
                on == mctx[h].st
            IN /\ crashed' \in Crashes(on # "open")
               /\ last' = Ran("write", "script", self, "return",
                              <<"gcry_md_write">>, on, "-", NULL, 0, 0)
    /\ UNCHANGED <<hash, mctx, finalized>>

\* A variant of lgcrypt_hash_read that looks up the digest length before it
\* checks that the algorithm is enabled.
lgcrypt_hash_read_length_first(self, arg) ==
    /\ IF ~checkHash(self)
       THEN /\ last' = ArgError("read", "script", self)
            /\ crashed' = crashed
       ELSE LET h == hash[self].h
                on == mctx[h].st
                c1 == <<"gcry_md_get_algo">>
                c2 == c1 \o <<"gcry_md_get_algo_dlen">>
                c3 == c2 \o <<"gcry_md_is_enabled">>
                c4 == c3 \o <<"gcry_md_read">>
            IN /\ crashed' \in Crashes(on # "open")
               /\ \E primary \in gcry_md_get_algo(h) :
                  IF ~luaL_checkint(arg)
                  THEN last' = Read(arg, self, "arg_error", c1, on, 0)
                  ELSE LET algo == IF arg = "default" THEN primary ELSE arg
                           digest_len == gcry_md_get_algo_dlen(algo)
                       IN IF digest_len = 0
                          THEN last' = Read(arg, self, "internal_error", c2, on, 0)
                          ELSE \E enabled \in gcry_md_is_enabled(h, algo) :
                               IF ~enabled
                               THEN last' = Read(arg, self, "usage_error", c3, on, 0)
                               ELSE \E digest \in gcry_md_read(h, algo) :
                                    IF ~digest
                                    THEN last' = Read(arg, self, "internal_error",
                                                      c4, on, 0)
                                    ELSE \E pushed \in lua_pushlstring :
                                         last' = IF pushed
                                                 THEN Read(arg, self, "return", c4, on,
                                                           digest_len)
                                                 ELSE Read(arg, self, "host_error",
                                                           c4, on, 0)
    /\ UNCHANGED <<hash, mctx, finalized>>

lgcrypt_hash_read(self, arg) ==
    /\ IF ~checkHash(self)
       THEN /\ last' = ArgError("read", "script", self)
            /\ crashed' = crashed
       ELSE LET h == hash[self].h
                on == mctx[h].st
                c1 == <<"gcry_md_get_algo">>
                c2 == c1 \o <<"gcry_md_is_enabled">>
                c3 == c2 \o <<"gcry_md_get_algo_dlen">>
                c4 == c3 \o <<"gcry_md_read">>
            IN /\ crashed' \in Crashes(on # "open")
               /\ \E primary \in gcry_md_get_algo(h) :
                  IF ~luaL_checkint(arg)
                  THEN last' = Read(arg, self, "arg_error", c1, on, 0)
                  ELSE LET algo == IF arg = "default" THEN primary ELSE arg
                           digest_len == gcry_md_get_algo_dlen(algo)
                       IN \E enabled \in gcry_md_is_enabled(h, algo) :
                          IF ~enabled
                          THEN last' = Read(arg, self, "usage_error", c2, on, 0)
                          ELSE IF digest_len = 0
                          THEN last' = Read(arg, self, "internal_error", c3, on, 0)
                          ELSE \E digest \in gcry_md_read(h, algo) :
                               IF ~digest
                               THEN last' = Read(arg, self, "internal_error", c4, on, 0)
                               ELSE \E pushed \in lua_pushlstring :
                                    last' = IF pushed
                                            THEN Read(arg, self, "return", c4, on,
                                                      digest_len)
                                            ELSE Read(arg, self, "host_error", c4, on, 0)
    /\ UNCHANGED <<hash, mctx, finalized>>

\* The names of the Hash metatable.
lgcrypt_hash_meta == {"__gc", "setkey", "reset", "write", "read"}

\* --------------------------------------------------------------- module
\* A variant of lgcrypt_init without the check for an earlier call.
lgcrypt_init_unchecked ==
    /\ initFinished' = TRUE
    /\ initSteps' = Bump(initSteps)
    /\ last' = Ran("init", "script", NULL, "return",
                   <<"gcry_check_version", "GCRYCTL_DISABLE_SECMEM",
                     "GCRYCTL_INITIALIZATION_FINISHED">>,
                   "-", "-", NULL, 0, 0)

lgcrypt_init ==
    /\ IF initFinished
       THEN /\ last' = Ran("init", "script", NULL, "usage_error",
                           <<"GCRYCTL_INITIALIZATION_FINISHED_P">>,
                           "-", "-", NULL, 0, 0)
            /\ UNCHANGED <<initFinished, initSteps>>
       ELSE /\ initFinished' = TRUE
            /\ initSteps' = Bump(initSteps)
            /\ last' = Ran("init", "script", NULL, "return",
                           <<"GCRYCTL_INITIALIZATION_FINISHED_P", "gcry_check_version",
                             "GCRYCTL_DISABLE_SECMEM",
                             "GCRYCTL_INITIALIZATION_FINISHED">>,
                           "-", "-", NULL, 0, 0)

\* register_metatable: the metatable holds every entry of funcs and is its
\* own __index, so indexing a handle finds every name of funcs.
register_metatable(funcs) == funcs

\* ------------------------------------------------- script and collector
Held == {o \in Objects : ref[o] = "held"}

\* The values a script can pass as self: a handle it holds, or a value that
\* is no userdata.
SelfArgs == Held \cup {NULL}

\* The second argument is looked at only after self has passed its check:
\* one value stands for all when self is rejected.
After(checked, args) == IF checked THEN args ELSE {CHOOSE v \in args : TRUE}

\* The object the next constructor call allocates, NULL when the bound on
\* the number of objects is reached.
NextObj ==
    IF \E o \in Objects : ref[o] = "none"
    THEN CHOOSE o \in Objects : ref[o] = "none" /\ \A p \in 1..(o - 1) : ref[p] # "none"
    ELSE NULL

Init ==
    /\ ref = [o \in Objects |-> "none"]
    /\ meta = [o \in Objects |-> "none"]
    /\ cipher = [o \in Objects |-> lgcrypt_cipher_new]
    /\ hash = [o \in Objects |-> lgcrypt_hash_new]
    /\ cctx = [o \in Objects |-> [st |-> "none", key |-> FALSE, closes |-> 0,
                                  iv |-> "zero"]]
    /\ mctx = [o \in Objects |-> [st |-> "none", algo |-> "none", hmac |-> FALSE,
                                  key |-> FALSE, closes |-> 0]]
    /\ heap = [o \in Objects |-> "free"]
    /\ leaked = FALSE
    /\ initFinished = FALSE
    /\ initSteps = 0
    /\ finalized = [o \in Objects |-> 0]
    /\ crashed = FALSE
    /\ last = Ran("load", "script", NULL, "return", <<>>, "-", "-", NULL, 0, 0)

CipherFrame == UNCHANGED <<hash, mctx, initFinished, initSteps>>
HashFrame == UNCHANGED <<cipher, cctx, heap, leaked, initFinished, initSteps>>

\* gcrypt.init()
ScriptInit ==
    /\ ~crashed
    /\ lgcrypt_init
    /\ UNCHANGED <<ref, meta, cipher, hash, cctx, mctx, heap, leaked, finalized,
                   crashed>>

\* gcrypt.Cipher(algo, mode)
ScriptCipher ==
    /\ ~crashed
    /\ \E algo \in CipherAlgoArgs, mode \in CipherModeArgs :
          lgcrypt_cipher_open(NextObj, algo, mode)
    /\ CipherFrame

\* gcrypt.Hash(algo, flags)
ScriptHash ==
    /\ ~crashed
    /\ \E algo \in HashAlgoArgs, flags \in HashFlagArgs :
          lgcrypt_hash_open(NextObj, algo, flags)
    /\ HashFrame

\* A function the script finds by indexing a handle it holds; it can call
\* the function on any value.
CanIndexCipher(name) ==
    /\ ~crashed
    /\ \E o \in Held : checkCipher(o)
    /\ name \in register_metatable(lgcrypt_cipher_meta)

CanIndexHash(name) ==
    /\ ~crashed
    /\ \E o \in Held : checkHash(o)
    /\ name \in register_metatable(lgcrypt_hash_meta)

ScriptCipherGc ==
    /\ CanIndexCipher("__gc")
    /\ \E self \in SelfArgs : lgcrypt_cipher___gc(self, "script")
    /\ CipherFrame /\ UNCHANGED <<ref, meta>>

ScriptCipherSetkey ==
    /\ CanIndexCipher("setkey")
    /\ \E self \in SelfArgs : \E key \in After(checkCipher(self), KeyArgs) :
          lgcrypt_cipher_setkey(self, key)
    /\ CipherFrame /\ UNCHANGED <<ref, meta>>

ScriptCipherSetiv ==
    /\ CanIndexCipher("setiv")
    /\ \E self \in SelfArgs : \E iv \in After(checkCipher(self), KeyArgs) :
          lgcrypt_cipher_setiv(self, iv)
    /\ CipherFrame /\ UNCHANGED <<ref, meta>>

ScriptCipherReset ==
    /\ CanIndexCipher("reset")
    /\ \E self \in SelfArgs : lgcrypt_cipher_reset(self)
    /\ CipherFrame /\ UNCHANGED <<ref, meta>>

ScriptCipherEncrypt ==
    /\ CanIndexCipher("encrypt")
    /\ \E self \in SelfArgs : \E in \in After(checkCipher(self), DataArgs) :
          lgcrypt_cipher_encrypt(self, in)
    /\ CipherFrame /\ UNCHANGED <<ref, meta>>

ScriptCipherDecrypt ==
    /\ CanIndexCipher("decrypt")
    /\ \E self \in SelfArgs : \E in \in After(checkCipher(self), DataArgs) :
          lgcrypt_cipher_decrypt(self, in)
    /\ CipherFrame /\ UNCHANGED <<ref, meta>>

ScriptHashGc ==
    /\ CanIndexHash("__gc")
    /\ \E self \in SelfArgs : lgcrypt_hash___gc(self, "script")
    /\ HashFrame /\ UNCHANGED <<ref, meta>>

ScriptHashSetkey ==
    /\ CanIndexHash("setkey")
    /\ \E self \in SelfArgs : \E key \in After(checkHash(self), KeyArgs) :
          lgcrypt_hash_setkey(self, key)
    /\ HashFrame /\ UNCHANGED <<ref, meta>>

ScriptHashReset ==
    /\ CanIndexHash("reset")
    /\ \E self \in SelfArgs : lgcrypt_hash_reset(self)
    /\ HashFrame /\ UNCHANGED <<ref, meta>>

ScriptHashWrite ==
    /\ CanIndexHash("write")
    /\ \E self \in SelfArgs : \E buffer \in After(checkHash(self), DataArgs) :
          lgcrypt_hash_write(self, buffer)
    /\ HashFrame /\ UNCHANGED <<ref, meta>>

ScriptHashRead ==
    /\ CanIndexHash("read")
    /\ \E self \in SelfArgs : \E algo \in After(checkHash(self), ReadAlgoArgs) :
          lgcrypt_hash_read(self, algo)
    /\ HashFrame /\ UNCHANGED <<ref, meta>>

\* The script lets go of a handle.
Drop ==
    /\ ~crashed
    /\ \E o \in Held : ref' = [ref EXCEPT ![o] = "garbage"]
    /\ UNCHANGED <<meta, cipher, hash, cctx, mctx, heap, leaked, initFinished,
                   initSteps, finalized, crashed, last>>

\* The collector runs the __gc metamethod of an unreachable userdata, once,
\* and frees the userdata.
Collect ==
    /\ ~crashed
    /\ \E o \in Objects :
         /\ ref[o] = "garbage"
         /\ ref' = [ref EXCEPT ![o] = "collected"]
         /\ UNCHANGED meta
         /\ IF checkCipher(o)
            THEN lgcrypt_cipher___gc(o, "gc") /\ CipherFrame
            ELSE lgcrypt_hash___gc(o, "gc") /\ HashFrame

Next ==
    \/ ScriptInit
    \/ ScriptCipher
    \/ ScriptHash
    \/ ScriptCipherGc
    \/ ScriptCipherSetkey
    \/ ScriptCipherSetiv
    \/ ScriptCipherReset
    \/ ScriptCipherEncrypt
    \/ ScriptCipherDecrypt
    \/ ScriptHashGc
    \/ ScriptHashSetkey
    \/ ScriptHashReset
    \/ ScriptHashWrite
    \/ ScriptHashRead
    \/ Drop
    \/ Collect

Spec == Init /\ [][Next]_vars

\* ------------------------------------------------------------- properties
Allocated == {o \in Objects : ref[o] \in {"held", "garbage"}}

IsCipher(o) == o # NULL /\ meta[o] = "gcrypt.Cipher"
IsHash(o) == o # NULL /\ meta[o] = "gcrypt.Hash"

\* The native field of userdata o, and the provider side of its context.
Native(o) == IF IsCipher(o) THEN cipher[o].h ELSE hash[o].h
Context(o) == IF IsCipher(o) THEN cctx[o] ELSE mctx[o]

\* C1: no provider operation is ever invoked on a native context that has
\* already been closed: whenever a handler called the provider on its
\* context, the context was not closed at the call.
C1_NoCallOnClosedContext == last.on # "closed"

\* C2: the native field of every handle that exists is the absent sentinel
\* or a context that is open at the provider.
C2_NativeOpenOrAbsent ==
    \A o \in Allocated : Native(o) = NULL \/ Context(Native(o)).st = "open"

\* C3: finalize is idempotent: a finalizer run on a handle that was already
\* finalized calls neither the provider's close nor gcry_free.
C3_FinalizeIdempotent ==
    (last.op = "__gc" /\ last.exit = "return" /\ finalized[last.self] = 2)
        => last.calls = <<>>

\* C4: the finalizer is invoked by the collector only: no finalizer runs, on
\* a call of the script, on a handle the script holds.
C4_FinalizerOnlyByCollector ==
    ~(last.op = "__gc" /\ last.exit = "return" /\ last.caller = "script"
      /\ ref[last.self] = "held")

\* C5: when encrypt or decrypt returns, or raises on a provider error or on
\* an allocation failure, the buffer the call allocated has been freed, by a
\* gcry_free that is the last call of the run, and out is NULL.
C5_ReleasedBeforeExit ==
    (last.op \in {"encrypt", "decrypt"}
     /\ last.exit \in {"return", "provider_error", "alloc_error"})
        => /\ cipher[last.self].out = NULL
           /\ last.exit = "alloc_error" => last.buf = NULL
           /\ last.exit # "alloc_error" =>
                 /\ last.buf # NULL
                 /\ heap[last.buf] = "free"
                 /\ last.calls[Len(last.calls)] = "gcry_free"

C5_Witness ==
    /\ last.op = "encrypt" /\ last.exit = "provider_error"
    /\ last.on = "open" /\ last.buf # NULL /\ last.inlen = 8
    /\ cipher[last.self].out = NULL

\* A call of a Cipher method on a handle whose context was open raised a
\* provider error.
FailedCipherCall ==
    /\ last.op \in {"setkey", "setiv", "reset", "encrypt", "decrypt"}
    /\ IsCipher(last.self)
    /\ last.exit = "provider_error"
    /\ last.on = "open"

\* The context of the handle of the last run is open, and the provider
\* accepts a valid call on it.
StillUsable ==
    LET h == cipher[last.self].h
    IN /\ h # NULL /\ cctx[h].st = "open"
       /\ gcry_cipher_setkey(h, 32) = {TRUE}
       /\ gcry_cipher_setiv(h, 16) = {TRUE}
       /\ gcry_cipher_reset(h) = {TRUE}
       /\ cctx[h].key => gcry_cipher_crypt(h, 16) = {TRUE}

\* C6 as stated: after a Cipher method raised a provider error the native
\* context is the open context it was, and out is NULL.
C6_FailedCallLeavesOutAbsent ==
    FailedCipherCall =>
        /\ cipher[last.self].h = last.self
        /\ cctx[last.self].st = "open"
        /\ cipher[last.self].out = NULL

\* C6 amended: a Cipher method that raises a provider error leaves the
\* native field and the provider's contexts as they were, so the context is
\* still open and takes a valid call; out is NULL after encrypt and decrypt,
\* and after setkey, setiv and reset it is what it was before the call.
C6_FailedCallKeepsHandle ==
    [][(last' # last /\ FailedCipherCall') =>
          LET o == last'.self
          IN /\ cipher'[o].h = cipher[o].h
             /\ cctx' = cctx
             /\ StillUsable'
             /\ last'.op \in {"encrypt", "decrypt"} => cipher'[o].out = NULL
             /\ last'.op \in {"setkey", "setiv", "reset"} =>
                   cipher'[o].out = cipher[o].out /\ heap' = heap]_vars

C6_Witness ==
    /\ FailedCipherCall
    /\ last.op = "encrypt" /\ last.inlen = 8
    /\ cctx[last.self].key
    /\ ref[last.self] = "held"

\* C7: a context that a constructor opened is closed exactly once when its
\* handle has been finalized by the collector, and it is not closed before
\* any finalizer has run on the handle.
C7_ClosedExactlyOnce ==
    \A o \in Objects :
        /\ finalized[o] = 0 => Context(o).closes = 0
        /\ (ref[o] = "collected" /\ Context(o).st # "none") => Context(o).closes = 1

\* C8: when the provider rejects the open call the constructor raises, the
\* script does not get the object, the object's native field is NULL, and
\* its finalization calls no provider close.
C8_FailedOpenDiscarded ==
    /\ (last.op \in {"Cipher", "Hash"} /\ last.exit = "provider_error") =>
          ref[last.self] = "garbage"
    /\ \A o \in Objects :
          (ref[o] # "none" /\ Context(o).st = "none") =>
              /\ ref[o] \in {"garbage", "collected"}
              /\ Native(o) = NULL
              /\ Context(o).closes = 0
              /\ (last.op = "__gc" /\ last.self = o) => last.calls = <<>>

C8_Witness ==
    \E o \in Objects :
        /\ ref[o] = "collected" /\ Context(o).st = "none"
        /\ last.op = "__gc" /\ last.self = o /\ last.caller = "gc"
        /\ finalized[o] = 1

\* C9: init is once-only: a call made while the provider reports that
\* initialization is finished raises after the query and performs no setup
\* step; a call made before performs the steps once and leaves the provider
\* marked, and the mark is never taken back.
C9_InitOnce ==
    [][/\ initFinished => (initFinished' /\ initSteps' = initSteps)
       /\ (last' # last /\ last'.op = "init") =>
             IF initFinished
             THEN /\ last'.exit = "usage_error"
                  /\ last'.calls = <<"GCRYCTL_INITIALIZATION_FINISHED_P">>
             ELSE /\ last'.exit = "return"
                  /\ initFinished'
                  /\ initSteps' = initSteps + 1]_vars

C9_Witness ==
    /\ last.op = "init" /\ last.exit = "usage_error"
    /\ initFinished /\ initSteps = 1

\* C10: read, for the algorithm given or else the primary algorithm of the
\* handle, makes the enabled check before the length lookup and the length
\* lookup before the provider read, and raises at the first check that
\* fails.  On an open context: a usage error, with no result, when the
\* algorithm is not enabled; an internal error when its digest length is
\* zero or the provider returns no buffer; otherwise a result of exactly the
\* digest length, unless the host fails to build the result.
C10_ReadChecks ==
    (last.op = "read" /\ last.exit # "arg_error") =>
        LET h == hash[last.self].h
            algo == IF last.arg = "default" THEN mctx[h].algo ELSE last.arg
            dlen == gcry_md_get_algo_dlen(algo)
            c2 == <<"gcry_md_get_algo", "gcry_md_is_enabled">>
            c3 == c2 \o <<"gcry_md_get_algo_dlen">>
            c4 == c3 \o <<"gcry_md_read">>
        IN /\ last.exit \in {"usage_error", "internal_error", "host_error", "return"}
           /\ last.exit = "usage_error" => last.calls = c2
           /\ last.exit = "internal_error" => last.calls \in {c3, c4}
           /\ last.exit \in {"host_error", "return"} => last.calls = c4
           /\ (last.outlen > 0) = (last.exit = "return")
           /\ last.on = "open" =>
                 /\ mctx[h].algo # algo => last.exit = "usage_error"
                 /\ (mctx[h].algo = algo /\ dlen = 0) =>
                       last.exit = "internal_error" /\ last.calls = c3
                 /\ (mctx[h].algo = algo /\ dlen > 0) =>
                       last.exit \in {"internal_error", "host_error", "return"}
                       /\ last.calls = c4
                 /\ last.exit = "return" => last.outlen = dlen

C10_Witness ==
    /\ last.op = "read" /\ last.exit = "return" /\ last.on = "open"
    /\ last.arg = "default" /\ last.outlen = 32

\* C13: read on a Hash handle opened with the HMAC flag, before any setkey
\* on it, does not return digest bytes.
C13_HmacReadNeedsKey ==
    (last.op = "read" /\ last.on = "open"
     /\ mctx[hash[last.self].h].hmac /\ ~mctx[hash[last.self].h].key)
        => last.exit # "return"

\* C14: when the only finalizer runs are the collector's, every buffer that
\* encrypt and decrypt allocate is freed exactly once: no live buffer loses
\* the pointer to it, and gcry_free is never called on a buffer that is
\* already free.
C14_EveryBufferFreedOnce ==
    (\A o \in Objects :
        finalized[o] = 0 \/ (finalized[o] = 1 /\ ref[o] = "collected"))
        => ~leaked /\ last.mem # "free"

\* The handles and what they own.
handles == <<ref, meta, cipher, hash, cctx, mctx, heap, leaked, finalized>>

C17_DigestBufferBorrowed ==
    /\ last.op = "read" =>
          /\ \A i \in 1..Len(last.calls) :
                last.calls[i] \notin {"gcry_free", "gcry_malloc"}
          /\ last.buf = NULL /\ last.mem = "-"
    /\ (last.op = "__gc" /\ IsHash(last.self)) =>
          /\ \A i \in 1..Len(last.calls) : last.calls[i] = "gcry_md_close"
          /\ last.mem = "-"
    /\ \A o \in Objects : DOMAIN hash[o] = {"h"}

C17_Witness ==
    /\ last.op = "read" /\ last.exit = "return" /\ last.on = "open"
    /\ last.outlen = 32 /\ ref[last.self] = "held"

\* A run of encrypt or decrypt in which the native call succeeded on an
\* open context.
Processed(run, op) ==
    /\ run.op = op /\ IsCipher(run.self)
    /\ run.exit \in {"return", "host_error"}
    /\ run.on = "open"

C12_ResetRestoresKeyAndIV ==
    [][(/\ last' # last
        /\ last'.op = "reset" /\ last'.exit = "return" /\ last'.on = "open"
        /\ IsCipher(last'.self)
        /\ cctx[last'.self].key /\ cctx[last'.self].iv = "set")
          => cctx'[last'.self] =
                [st |-> "open", key |-> TRUE, closes |-> 0, iv |-> "set"]]_vars

\* C12 amended: reset, after any calls, keeps the key and clears the IV: it
\* leaves the context as that of a fresh handle given the same key and no
\* IV, and a setiv(v) after it leaves the context as that of a fresh handle
\* given the same key and the IV v.
C12_ResetKeepsKeyClearsIV ==
    [][/\ (/\ last' # last
           /\ last'.op = "reset" /\ last'.exit = "return" /\ last'.on = "open"
           /\ IsCipher(last'.self))
             => /\ cctx'[last'.self] =
                      [st |-> "open", key |-> cctx[last'.self].key,
                       closes |-> 0, iv |-> "zero"]
                /\ last'.calls = <<"gcry_cipher_reset">>
       /\ (/\ last' # last
           /\ last'.op = "setiv" /\ last'.exit = "return" /\ last'.on = "open")
             => cctx'[last'.self] =
                   [st |-> "open", key |-> cctx[last'.self].key,
                    closes |-> 0, iv |-> "set"]]_vars

C12_Witness ==
    /\ last.op = "reset" /\ IsCipher(last.self) /\ last.exit = "return" /\ last.on = "open"
    /\ cctx[last.self].key /\ cctx[last.self].iv = "zero"
    /\ cipher[last.self].out # NULL

\* C15: encrypt and decrypt allocate a buffer of the input's length first
\* and store it in out; the native call is made only after that, and only
\* with a buffer; a result has the length of the input.
C15_BufferOwnedBeforeCall ==
    (last.op \in {"encrypt", "decrypt"} /\ last.exit # "arg_error") =>
        /\ last.calls[1] = "gcry_malloc"
        /\ last.size = last.inlen
        /\ last.buf = NULL => (last.exit = "alloc_error" /\ Len(last.calls) = 1)
        /\ last.buf # NULL =>
              /\ last.buf = last.self
              /\ Len(last.calls) >= 2
              /\ last.calls[2] = "gcry_cipher_" \o last.op
              /\ last.exit = "host_error" =>
                    cipher[last.self].out = last.buf /\ heap[last.buf] = "live"
        /\ last.exit = "return" => last.outlen = last.inlen
        /\ last.exit # "return" => last.outlen = 0

C15_Witness ==
    /\ last.op = "decrypt" /\ last.exit = "host_error" /\ last.on = "open"
    /\ cipher[last.self].out = last.buf /\ last.buf # NULL
    /\ last.size = 16

====
